---- MODULE Spec2Model ----
(***************************************************************************)
(* Model of TP0_Redes/main.py: a one-shot UDP client for a fixed-layout    *)
(* token protocol.  Text is a sequence of character codes, a byte string   *)
(* is a sequence of 0..255, argv is a sequence of texts.                   *)
(***************************************************************************)
EXTENDS Integers, Sequences, FiniteSets, TLC

VARIABLES argv, pc, cmd, cargs, data, sock, message, wire, recvs, xstate,
          response, exc, parsed, out

vars == <<argv, pc, cmd, cargs, data, sock, message, wire, recvs, xstate,
          response, exc, parsed, out>>

(* ---------------- bounds of the explored inputs ---------------- *)
MaxIdLen == 13
MaxSasCount == 17
MaxBlocks == 2

(* ---------------- program constants ---------------- *)
IdWidth == 12
NonceWidth == 4
TokenWidth == 64
SasWidth == 80
MaxGroup == 16
BufSize == 1024
ErrorType == 256

(* ---------------- characters ---------------- *)
SP == 32
COLON == 58
PLUS == 43
MINUS == 45
\* the letters a b x y z and one code outside ASCII, used to build inputs
Alphabet == <<97, 98, 120, 121, 122, 233>>
ChA == Alphabet[1]
ChB == Alphabet[2]
ChX == Alphabet[3]
ChY == Alphabet[4]
ChZ == Alphabet[5]
NonAscii == Alphabet[6]

CMD_itr == <<105, 116, 114>>
CMD_itv == <<105, 116, 118>>
CMD_gtr == <<103, 116, 114>>
CMD_gtv == <<103, 116, 118>>
CMD_bad == <<120>>

(* ---------------- Python primitives ---------------- *)
Min(a, b) == IF a < b THEN a ELSE b

Rep(c, n) == [i \in 1..n |-> c]

RECURSIVE Concat(_)
Concat(ss) == IF ss = <<>> THEN <<>> ELSE Head(ss) \o Concat(Tail(ss))

\* s[a:b] for 0 <= a, 0 <= b
Slice(s, a, b) == SubSeq(s, a + 1, Min(b, Len(s)))

\* s[a:]
SliceFrom(s, a) == SubSeq(s, a + 1, Len(s))

\* str.ljust(width, fill)
ljust(s, width, fill) == IF Len(s) >= width THEN s ELSE s \o Rep(fill, width - Len(s))

\* the characters str.strip() and int() treat as whitespace
IsSpace(c) == c \in {9, 10, 11, 12, 13, 28, 29, 30, 31, 32}

RECURSIVE lstrip(_)
lstrip(s) == IF s # <<>> /\ IsSpace(Head(s)) THEN lstrip(Tail(s)) ELSE s

RECURSIVE rstrip(_)
rstrip(s) == IF s # <<>> /\ IsSpace(s[Len(s)]) THEN rstrip(SubSeq(s, 1, Len(s) - 1)) ELSE s

\* str.strip(): whitespace removed at both ends
strip(s) == rstrip(lstrip(s))

\* str.encode("ascii") / bytes.decode("ascii") succeed iff every code is below 128
IsAscii(s) == \A i \in 1..Len(s) : s[i] < 128

\* str.split(sep) for a one-character separator
RECURSIVE split(_, _)
split(s, sep) ==
    IF \A i \in 1..Len(s) : s[i] # sep THEN <<s>>
    ELSE LET k == CHOOSE i \in 1..Len(s) : s[i] = sep /\ \A j \in 1..(i - 1) : s[j] # sep
         IN  <<SubSeq(s, 1, k - 1)>> \o split(SubSeq(s, k + 1, Len(s)), sep)

IsDigit(c) == c \in 48..57

RECURSIVE DigitsVal(_)
DigitsVal(s) == IF s = <<>> THEN 0
                ELSE DigitsVal(SubSeq(s, 1, Len(s) - 1)) * 10 + (s[Len(s)] - 48)

\* int(text): surrounding whitespace and one sign are accepted, then decimal digits
ParseInt(s) ==
    LET t == strip(s)
        signed == t # <<>> /\ t[1] \in {PLUS, MINUS}
        d == IF signed THEN Tail(t) ELSE t
        good == d # <<>> /\ \A i \in 1..Len(d) : IsDigit(d[i])
    IN  IF ~good THEN [ok |-> FALSE, val |-> 0]
        ELSE [ok |-> TRUE,
              val |-> IF signed /\ t[1] = MINUS THEN 0 - DigitsVal(d) ELSE DigitsVal(d)]

\* str(n) for n >= 0, as the f-string formats the nonce
RECURSIVE FormatInt(_)
FormatInt(n) == IF n < 10 THEN <<48 + n>>
                ELSE FormatInt(n \div 10) \o <<48 + (n % 10)>>

\* int.from_bytes(b, "big")
RECURSIVE from_bytes(_)
from_bytes(b) == IF b = <<>> THEN 0
                 ELSE from_bytes(SubSeq(b, 1, Len(b) - 1)) * 256 + b[Len(b)]

\* struct.pack("<w>s", b): cut to w bytes, or filled with zero bytes up to w
pack_s(b, w) == IF Len(b) >= w THEN SubSeq(b, 1, w) ELSE b \o Rep(0, w - Len(b))

\* struct.pack("!H", n) raises struct.error outside 0..65535
fits_H(n) == n >= 0 /\ n <= 65535
pack_H(n) == <<n \div 256, n % 256>>

\* struct.pack("!h", n) for the non-negative counts len() yields
pack_h(n) == <<n \div 256, n % 256>>

\* struct.pack("!I", n) raises struct.error outside 0..2^32-1
fits_I(n) == n >= 0 /\ (n \div 16777216) <= 255
pack_I(n) == <<n \div 16777216, (n \div 65536) % 256, (n \div 256) % 256, n % 256>>

\* struct.unpack("!H", b) needs exactly two bytes
unpack_H(b) == IF Len(b) = 2 THEN [ok |-> TRUE, val |-> b[1] * 256 + b[2]]
               ELSE [ok |-> FALSE, val |-> 0]

Ok(b) == [ok |-> TRUE, data |-> b, err |-> ""]
Err(e) == [ok |-> FALSE, data |-> <<>>, err |-> e]

(* ---------------- tables ---------------- *)
MESSAGE_TYPES(k) ==
    CASE k = CMD_itr -> 1
      [] k = CMD_itv -> 3
      [] k = CMD_gtr -> 5
      [] k = CMD_gtv -> 7

ERROR_CODES ==
    [c \in 1..5 |->
        CASE c = 1 -> "INVALID_MESSAGE_CODE"
          [] c = 2 -> "INCORRECT_MESSAGE_LENGTH"
          [] c = 3 -> "INVALID_PARAMETER"
          [] c = 4 -> "INVALID_SINGLE_TOKEN"
          [] c = 5 -> "ASCII_DECODE_ERROR"]

(* ---------------- request encoding ---------------- *)
create_individual_token_request_message(user_id, nonce) ==
    LET user_id_padded == ljust(user_id, IdWidth, SP)
    IN  IF ~IsAscii(user_id_padded) THEN Err("UnicodeEncodeError")
        ELSE IF ~fits_I(nonce) THEN Err("struct.error")
        ELSE Ok(pack_s(user_id_padded, IdWidth) \o pack_I(nonce))

create_individual_token_validation_message(sas) ==
    LET parts == split(sas, COLON)
    IN  IF Len(parts) # 3 THEN Err("ValueError")
        ELSE LET user_id == parts[1]
                 nonce == ParseInt(parts[2])
                 token == parts[3]
                 user_id_padded == ljust(user_id, IdWidth, SP)
             IN  IF ~nonce.ok THEN Err("ValueError")
                 ELSE IF ~IsAscii(user_id_padded) THEN Err("UnicodeEncodeError")
                 ELSE IF ~IsAscii(token) THEN Err("UnicodeEncodeError")
                 ELSE IF ~fits_I(nonce.val) THEN Err("struct.error")
                 ELSE Ok(pack_s(user_id_padded, IdWidth) \o pack_I(nonce.val)
                         \o pack_s(token, TokenWidth))

\* the loop "for sas in sas_list: data += ..." ; the first failing element raises
RECURSIVE EncodeAll(_, _)
EncodeAll(acc, sas_list) ==
    IF sas_list = <<>> THEN Ok(acc)
    ELSE LET e == create_individual_token_validation_message(Head(sas_list))
         IN  IF ~e.ok THEN e ELSE EncodeAll(acc \o e.data, Tail(sas_list))

create_group_token_request_message(N, sas_list) ==
    IF ~fits_H(N) THEN Err("struct.error")
    ELSE EncodeAll(pack_H(N), sas_list)

create_group_token_validation_message(gas) ==
    LET splitted_gas == split(gas, PLUS)
        gas_token == splitted_gas[Len(splitted_gas)]
        sas_list == SubSeq(splitted_gas, 1, Len(splitted_gas) - 1)
    IN  IF ~IsAscii(gas_token) THEN Err("UnicodeEncodeError")
        ELSE LET body == EncodeAll(pack_h(Len(sas_list)), sas_list)
             IN  IF ~body.ok THEN body
                 ELSE Ok(body.data \o pack_s(gas_token, TokenWidth))

get_message_data(command, args) ==
    CASE command = CMD_itr ->
           LET nonce == ParseInt(args[2])
           IN  IF ~nonce.ok THEN Err("ValueError")
               ELSE create_individual_token_request_message(args[1], nonce.val)
      [] command = CMD_itv -> create_individual_token_validation_message(args[1])
      [] command = CMD_gtr ->
           create_group_token_request_message(ParseInt(args[1]).val, Tail(args))
      [] command = CMD_gtv -> create_group_token_validation_message(args[1])

(* ---------------- reply decoding ---------------- *)
Text(t) == [ok |-> TRUE, text |-> t]
NoText == [ok |-> FALSE, text |-> <<>>]

decode_sas(d, idx) ==
    LET id_bytes == Slice(d, idx, idx + IdWidth)
        nonce_bytes == Slice(d, idx + IdWidth, idx + IdWidth + NonceWidth)
        token_bytes == Slice(d, idx + IdWidth + NonceWidth, idx + SasWidth)
    IN  IF ~IsAscii(id_bytes) \/ ~IsAscii(token_bytes) THEN NoText
        ELSE Text(strip(id_bytes) \o <<COLON>> \o FormatInt(from_bytes(nonce_bytes))
                  \o <<COLON>> \o token_bytes)

\* the loop "for i in range(4, 4+80*N, 80)" of parse_response, from block i on
RECURSIVE DecodeBlocks(_, _, _)
DecodeBlocks(d, i, stop) ==
    IF i >= stop THEN Text(<<>>)
    ELSE LET sas == decode_sas(d, i)
         IN  IF ~sas.ok THEN NoText
             ELSE LET rest == DecodeBlocks(d, i + SasWidth, stop)
                  IN  IF ~rest.ok THEN NoText
                      ELSE Text(sas.text \o <<PLUS>> \o rest.text)

Unset == [kind |-> "unset", name |-> "", byte |-> 0, text |-> <<>>, err |-> ""]
Raise(e) == [Unset EXCEPT !.kind = "raise", !.err = e]
RetError(n) == [Unset EXCEPT !.kind = "error", !.name = n]
RetByte(b) == [Unset EXCEPT !.kind = "byte", !.byte = b]
RetText(t) == [Unset EXCEPT !.kind = "text", !.text = t]
RetNone == [Unset EXCEPT !.kind = "none"]

\* a variant of the table lookup that maps every unknown code to a default name
ErrorLookup_default(error_code) ==
    IF error_code \in DOMAIN ERROR_CODES THEN RetError(ERROR_CODES[error_code])
    ELSE RetError("UNKNOWN")

\* {"error": ERROR_CODES[error_code]} ; a missing key raises KeyError
ErrorLookup(error_code) ==
    IF error_code \in DOMAIN ERROR_CODES THEN RetError(ERROR_CODES[error_code])
    ELSE Raise("KeyError")

parse_response(d) ==
    LET mt == unpack_H(Slice(d, 0, 2))
    IN  IF ~mt.ok THEN Raise("struct.error")
        ELSE LET message_type == mt.val
             IN  IF message_type = ErrorType
                 THEN LET ec == unpack_H(Slice(d, 2, 4))
                      IN  IF ~ec.ok THEN Raise("struct.error") ELSE ErrorLookup(ec.val)
                 ELSE IF message_type = MESSAGE_TYPES(CMD_itv) + 1
                         \/ message_type = MESSAGE_TYPES(CMD_gtv) + 1
                 THEN RetByte(d[Len(d)])
                 ELSE IF message_type = MESSAGE_TYPES(CMD_gtr) + 1
                 THEN LET N == from_bytes(Slice(d, 2, 4))
                          sas_list == DecodeBlocks(d, 4, 4 + SasWidth * N)
                          token == SliceFrom(d, 4 + SasWidth * N)
                      IN  IF ~sas_list.ok \/ ~IsAscii(token) THEN Raise("UnicodeDecodeError")
                          ELSE RetText(sas_list.text \o token)
                 ELSE IF message_type < 5
                 THEN LET sas == decode_sas(d, 2)
                      IN  IF ~sas.ok THEN Raise("UnicodeDecodeError") ELSE RetText(sas.text)
                 ELSE RetNone

(* ---------------- command line ---------------- *)
Exit(o) == [ok |-> FALSE, out |-> o, command |-> <<>>, args |-> <<>>]

\* sys.argv[0] is argv[1] here; returns the printed lines and, unless the
\* process exits, the command and its arguments
read_and_validate_cli_args(av) ==
    IF Len(av) < 5 THEN Exit(<<"Usage">>)
    ELSE LET port == av[3]
             command == av[4]
             command_args == SubSeq(av, 5, Len(av))
         IN  IF ~ParseInt(port).ok THEN Exit(<<"Invalid port number">>)
             ELSE IF command \notin {CMD_itr, CMD_itv, CMD_gtr, CMD_gtv}
                  THEN Exit(<<"Invalid command">>)
             ELSE IF command = CMD_itr /\ Len(command_args) # 2
                  THEN Exit(<<"Invalid itr command arguments">>)
             ELSE IF command = CMD_itv /\ command_args = <<>>
                  THEN Exit(<<"Invalid itv command arguments">>)
             ELSE IF command = CMD_gtr
                  THEN LET n == ParseInt(command_args[1])
                           warn == IF n.val > MaxGroup
                                   THEN <<"Invalid argument <N>. Should be less than 16">>
                                   ELSE <<>>
                       IN  IF ~n.ok THEN Exit(<<"Invalid argument <N>">>)
                           ELSE IF Len(command_args) < n.val + 1
                                THEN Exit(warn \o <<"List of SAS does not have N elements">>)
                           ELSE [ok |-> TRUE, out |-> warn, command |-> command,
                                 args |-> command_args]
             ELSE [ok |-> TRUE, out |-> <<>>, command |-> command, args |-> command_args]

(* ---------------- explored inputs ---------------- *)
Prog == <<109>>
Host == <<104>>
Port == <<56, 48>>

Ids == { Rep(SP, l) \o Rep(ChA, k) \o Rep(SP, t) :
            l \in 0..1, t \in 0..1, k \in {0, 1} \cup ((MaxIdLen - 2)..MaxIdLen) }
       \cup { <<NonAscii>> }

NonceTexts == { <<48>>, <<55>>, <<48, 48, 55>>, <<50, 53, 54>>, <<MINUS, 49>>, <<ChX>>,
                <<50, 49, 52, 55, 52, 56, 51, 54, 52, 55>> }

Tokens == { Rep(ChX, TokenWidth), Rep(ChY, TokenWidth - 1), Rep(ChX, TokenWidth + 1),
            Rep(ChX, TokenWidth - 1) \o <<COLON>> }

MkSas(id, nonce, token) == id \o <<COLON>> \o nonce \o <<COLON>> \o token

SasIds == { <<>>, <<ChA>>, <<SP, ChA>>, <<ChA, SP>>, Rep(ChA, IdWidth), Rep(ChA, MaxIdLen) }

SasTexts == { MkSas(id, n, t) : id \in SasIds, n \in {<<55>>, <<48, 48, 55>>, <<ChX>>},
                                t \in Tokens }
            \cup { <<ChA>> }

SasA == MkSas(<<ChA>>, <<49>>, Rep(ChX, TokenWidth))
SasB == MkSas(<<ChB>>, <<50>>, Rep(ChY, TokenWidth))
SasList(k) == [i \in 1..k |-> IF i % 2 = 1 THEN SasA ELSE SasB]

GasTexts == { SasA \o <<PLUS>> \o SasB \o <<PLUS>> \o Rep(ChZ, TokenWidth),
              Rep(ChZ, TokenWidth),
              <<ChA>> \o <<PLUS>> \o Rep(ChZ, TokenWidth),
              SasA \o <<PLUS, NonAscii>> }

Counts == {0, 1, 2, MaxGroup, MaxGroup + 1}
ListLens == {0, 1, 2, 3, MaxGroup, MaxSasCount}

Argvs ==
    { <<Prog, Host, Port, CMD_itr>>, <<Prog, Host, <<ChX>>, CMD_itr, <<ChA>>, <<55>>>>,
      <<Prog, Host, Port, CMD_bad, <<ChA>>>>, <<Prog, Host, Port, CMD_itr, <<ChA>>>>,
      <<Prog, Host, Port, CMD_itr, <<ChA>>, <<55>>, <<55>>>>,
      <<Prog, Host, Port, CMD_gtr, <<ChX>>>>, <<Prog, Host, Port, CMD_gtr, <<MINUS, 49>>, SasA>> }
    \cup { <<Prog, Host, Port, CMD_itr, id, n>> : id \in Ids, n \in NonceTexts }
    \cup { <<Prog, Host, Port, CMD_itv, sas>> : sas \in SasTexts }
    \cup { <<Prog, Host, Port, CMD_gtr, FormatInt(n)>> \o SasList(k) :
              n \in Counts, k \in ListLens }
    \cup { <<Prog, Host, Port, CMD_gtv, gas>> : gas \in GasTexts }

\* an 80-byte SAS block as a server lays it out
Block(id, nonce, tokenByte) ==
    ljust(id, IdWidth, SP) \o pack_I(nonce) \o Rep(tokenByte, TokenWidth)

Bodies == { <<>>, <<1>>, Rep(ChA, 10), Block(<<ChA>>, 7, ChX),
            Block(<<SP, ChA>>, 256, ChY), Block(<<NonAscii>>, 1, ChX) }

Replies ==
    { <<>>, <<0>>, <<1, 0, 0>>, <<1, 0, 0, 3, 9>>, <<0, 2>> \o Rep(ChX, BufSize + 20),
      <<0, 6>>, <<0, 6, 1>> }
    \cup { <<1, 0, c \div 256, c % 256>> : c \in {0, 1, 2, 3, 4, 5, 6, 256, 259} }
    \cup { <<t \div 256, t % 256>> \o b : t \in {1, 2, 3, 4, 5, 7, 8, 9, 257}, b \in Bodies }
    \cup { <<0, 6, 0, n>> \o Concat([i \in 1..k |-> Block(<<ChA>>, i, ChX)]) \o tok :
              n \in 0..MaxBlocks, k \in 0..MaxBlocks,
              tok \in {<<>>, Rep(ChZ, TokenWidth)} }

(* ---------------- the run of main() ---------------- *)
None == [some |-> FALSE, data |-> <<>>]
Some(d) == [some |-> TRUE, data |-> d]

Init ==
    /\ argv \in Argvs
    /\ pc = "start"
    /\ cmd = <<>>
    /\ cargs = <<>>
    /\ data = <<>>
    /\ sock = "none"
    /\ message = <<>>
    /\ wire = <<>>
    /\ recvs = 0
    /\ xstate = "IDLE"
    /\ response = None
    /\ exc = ""
    /\ parsed = Unset
    /\ out = <<>>

\* main, line 146
Validate ==
    /\ pc = "start"
    /\ LET r == read_and_validate_cli_args(argv)
       IN  /\ out' = out \o r.out
           /\ cmd' = r.command
           /\ cargs' = r.args
           /\ pc' = IF r.ok THEN "validated" ELSE "exited"
    /\ UNCHANGED <<argv, data, sock, message, wire, recvs, xstate, response, exc, parsed>>

\* main, line 147
Encode ==
    /\ pc = "validated"
    /\ LET r == get_message_data(cmd, cargs)
       IN  /\ data' = r.data
           /\ exc' = r.err
           /\ pc' = IF r.ok THEN "encoded" ELSE "enc_raised"
    /\ UNCHANGED <<argv, cmd, cargs, sock, message, wire, recvs, xstate, response, parsed, out>>

\* send_message, lines 103-106: the socket is created and the message framed
OpenSocket ==
    /\ pc = "encoded"
    /\ sock' = "open"
    /\ message' = pack_H(MESSAGE_TYPES(cmd)) \o data
    /\ pc' = "framed"
    /\ UNCHANGED <<argv, cmd, cargs, data, wire, recvs, xstate, response, exc, parsed, out>>

\* line 109: the datagram leaves
SendTo ==
    /\ pc = "framed"
    /\ wire' = Append(wire, message)
    /\ xstate' = "SENT"
    /\ pc' = "sent"
    /\ UNCHANGED <<argv, cmd, cargs, data, sock, message, recvs, response, exc, parsed, out>>

\* line 109 raises something other than socket.timeout
SendFails ==
    /\ pc = "framed"
    /\ exc' = "OSError"
    /\ xstate' = "FAILED"
    /\ pc' = "finally"
    /\ UNCHANGED <<argv, cmd, cargs, data, sock, message, wire, recvs, response, parsed, out>>

\* lines 110-111: a datagram arrives in time; at most BufSize bytes of it are kept
RecvFrom(d) ==
    /\ pc = "sent"
    /\ recvs' = recvs + 1
    /\ response' = Some(SubSeq(d, 1, Min(Len(d), BufSize)))
    /\ xstate' = "RECEIVED"
    /\ pc' = "finally"
    /\ UNCHANGED <<argv, cmd, cargs, data, sock, message, wire, exc, parsed, out>>

\* a handler that sends the request again instead of giving up
RecvTimeout_retry ==
    /\ pc = "sent"
    /\ Len(wire) < 3
    /\ recvs' = recvs + 1
    /\ wire' = Append(wire, message)
    /\ out' = Append(out, "Timeout waiting for response from server.")
    /\ UNCHANGED <<argv, pc, cmd, cargs, data, sock, message, xstate, response, exc, parsed>>

\* a handler that hands back the local variable data instead of None
RecvTimeout_returnsData ==
    /\ pc = "sent"
    /\ recvs' = recvs + 1
    /\ out' = Append(out, "Timeout waiting for response from server.")
    /\ response' = Some(data)
    /\ xstate' = "TIMED_OUT"
    /\ pc' = "finally"
    /\ UNCHANGED <<argv, cmd, cargs, data, sock, message, wire, exc, parsed>>

\* lines 110, 112-114: socket.timeout is caught, reported, and None returned
RecvTimeout ==
    /\ pc = "sent"
    /\ recvs' = recvs + 1
    /\ out' = Append(out, "Timeout waiting for response from server.")
    /\ response' = None
    /\ xstate' = "TIMED_OUT"
    /\ pc' = "finally"
    /\ UNCHANGED <<argv, cmd, cargs, data, sock, message, wire, exc, parsed>>

\* line 110 raises something other than socket.timeout
RecvFails ==
    /\ pc = "sent"
    /\ recvs' = recvs + 1
    /\ exc' = "OSError"
    /\ xstate' = "FAILED"
    /\ pc' = "finally"
    /\ UNCHANGED <<argv, cmd, cargs, data, sock, message, wire, response, parsed, out>>

\* a close placed after the try statement: skipped when an exception passes through
CloseSocket_afterTry ==
    /\ pc = "finally"
    /\ sock' = IF exc = "" THEN "closed" ELSE sock
    /\ pc' = IF exc = "" THEN "returned" ELSE "xchg_raised"
    /\ UNCHANGED <<argv, cmd, cargs, data, message, wire, recvs, xstate, response, exc, parsed, out>>

\* lines 115-116: finally closes the socket, then the return or the exception goes on
CloseSocket ==
    /\ pc = "finally"
    /\ sock' = "closed"
    /\ pc' = IF exc = "" THEN "returned" ELSE "xchg_raised"
    /\ UNCHANGED <<argv, cmd, cargs, data, message, wire, recvs, xstate, response, exc, parsed, out>>

\* "if response": None and the empty datagram are both falsy
Truthy(r) == r.some /\ r.data # <<>>

\* main, line 149 with a falsy response: nothing more happens
SkipParse ==
    /\ pc = "returned"
    /\ ~Truthy(response)
    /\ pc' = "done"
    /\ UNCHANGED <<argv, cmd, cargs, data, sock, message, wire, recvs, xstate, response, exc, parsed, out>>

\* main, lines 149-151: the reply is decoded and the result printed
ParseAndPrint ==
    /\ pc = "returned"
    /\ Truthy(response)
    /\ LET r == parse_response(response.data)
       IN  /\ parsed' = r
           /\ exc' = r.err
           /\ out' = IF r.kind = "raise" THEN out ELSE Append(out, "parsed_response")
           /\ pc' = IF r.kind = "raise" THEN "parse_raised" ELSE "done"
    /\ UNCHANGED <<argv, cmd, cargs, data, sock, message, wire, recvs, xstate, response>>

Next ==
    \/ Validate
    \/ Encode
    \/ OpenSocket
    \/ SendTo
    \/ SendFails
    \/ \E d \in Replies : RecvFrom(d)
    \/ RecvTimeout
    \/ RecvFails
    \/ CloseSocket
    \/ SkipParse
    \/ ParseAndPrint

Spec == Init /\ [][Next]_vars

(* ---------------- properties ---------------- *)
Range(q) == { q[i] : i \in 1..Len(q) }
TimeoutLine == "Timeout waiting for response from server."
Invoked == sock # "none"
Ended == pc \in {"returned", "xchg_raised", "parse_raised", "done"}
ReplyType(d) == d[1] * 256 + d[2]
Decoded == pc \in {"done", "parse_raised"} /\ Truthy(response) /\ Len(response.data) >= 2

\* C1 as stated: every invocation of send_message goes IDLE -> SENT ->
\* RECEIVED or TIMED_OUT, sends exactly one datagram, receives at most once,
\* and once it has ended it is in RECEIVED or TIMED_OUT.
C1_Original ==
    /\ xstate \in {"IDLE", "SENT", "RECEIVED", "TIMED_OUT"}
    /\ Len(wire) <= 1
    /\ recvs <= 1
    /\ (Invoked /\ Ended) => (xstate \in {"RECEIVED", "TIMED_OUT"} /\ Len(wire) = 1)

C1_Inv ==
    /\ xstate \in {"IDLE", "SENT", "RECEIVED", "TIMED_OUT", "FAILED"}
    /\ Len(wire) <= 1
    /\ recvs <= 1
    /\ xstate = "IDLE" => (wire = <<>> /\ recvs = 0)
    /\ xstate = "SENT" => (Len(wire) = 1 /\ recvs = 0)
    /\ xstate \in {"RECEIVED", "TIMED_OUT"} => (Len(wire) = 1 /\ recvs = 1)
    /\ xstate = "FAILED" => (exc = "OSError" /\ Len(wire) = recvs)
    /\ (Invoked /\ Ended) => xstate \in {"RECEIVED", "TIMED_OUT", "FAILED"}

C1_Step ==
    /\ xstate' # xstate =>
          <<xstate, xstate'>> \in { <<"IDLE", "SENT">>, <<"IDLE", "FAILED">>,
                                    <<"SENT", "RECEIVED">>, <<"SENT", "TIMED_OUT">>,
                                    <<"SENT", "FAILED">> }
    /\ xstate \in {"RECEIVED", "TIMED_OUT", "FAILED"} =>
          (xstate' = xstate /\ wire' = wire /\ recvs' = recvs)
    /\ wire' # wire => (xstate = "IDLE" /\ xstate' = "SENT" /\ wire' = <<message>>)
    /\ recvs' # recvs => (xstate = "SENT" /\ xstate' # "SENT")

\* C1 amended: every invocation of send_message goes IDLE -> SENT ->
\* RECEIVED or TIMED_OUT, or ends in FAILED when sendto (from IDLE) or
\* recvfrom (from SENT) raises something other than a timeout; it sends at
\* most one datagram (exactly one once SENT is reached), receives at most
\* once, all three end states are terminal, and after a timeout no second
\* datagram is ever sent.
C1_Amended == []C1_Inv /\ [][C1_Step]_vars

C1_Witness == pc = "done" /\ xstate = "TIMED_OUT" /\ Len(wire) = 1 /\ recvs = 1

\* C2: once send_message has returned or propagated a failure, the socket
\* it opened is closed; the socket is open only inside the call.
C2_SocketClosed ==
    /\ (Invoked /\ Ended) => sock = "closed"
    /\ sock = "open" => pc \in {"framed", "sent", "finally"}
    /\ pc \in {"framed", "sent", "finally"} => sock = "open"

C2_Witness == pc = "xchg_raised" /\ exc = "OSError" /\ sock = "closed" /\ recvs = 1

\* C3: a timeout is reported, yields no response and no decoded payload
\* (parse_response is not applied, nothing is printed as a result), and the
\* report tells it apart from a decoded error reply and from a codec failure.
C3_TimeoutNoPayload ==
    /\ xstate = "TIMED_OUT" =>
          /\ ~response.some
          /\ parsed = Unset
          /\ exc = ""
          /\ pc \in {"finally", "returned", "done"}
          /\ out # <<>> /\ out[Len(out)] = TimeoutLine
          /\ "parsed_response" \notin Range(out)
    /\ xstate # "TIMED_OUT" => TimeoutLine \notin Range(out)
    /\ parsed.kind = "error" =>
          (xstate = "RECEIVED" /\ out # <<>> /\ out[Len(out)] = "parsed_response")
    /\ pc \in {"enc_raised", "parse_raised"} => (exc # "" /\ xstate # "TIMED_OUT")

C3_Witness == pc = "done" /\ xstate = "TIMED_OUT" /\ out[Len(out)] = TimeoutLine

\* C4: a reply of type 256 carrying a 2-byte error code decodes to the error
\* value naming the enumeration entry for the codes 1..5 and fails to decode
\* for every other code.
C4_ErrorReply ==
    (Decoded /\ Len(response.data) >= 4 /\ ReplyType(response.data) = 256) =>
        LET code == response.data[3] * 256 + response.data[4]
        IN  IF code \in 1..5
            THEN /\ pc = "done"
                 /\ parsed.kind = "error"
                 /\ parsed.name = CASE code = 1 -> "INVALID_MESSAGE_CODE"
                                    [] code = 2 -> "INCORRECT_MESSAGE_LENGTH"
                                    [] code = 3 -> "INVALID_PARAMETER"
                                    [] code = 4 -> "INVALID_SINGLE_TOKEN"
                                    [] code = 5 -> "ASCII_DECODE_ERROR"
            ELSE /\ pc = "parse_raised"
                 /\ parsed.kind = "raise"
                 /\ "parsed_response" \notin Range(out)

C4_Witness ==
    /\ pc = "done"
    /\ response.data = <<1, 0, 0, 3>>
    /\ parsed.kind = "error"
    /\ parsed.name = "INVALID_PARAMETER"

\* C5: an itr run whose identifier has more than 12 characters fails at
\* encoding: no request body is produced and no datagram is sent.
C5_OversizeIdRejected ==
    (cmd = CMD_itr /\ Len(cargs) = 2 /\ Len(cargs[1]) > 12) =>
        (pc \in {"validated", "enc_raised"} /\ data = <<>> /\ wire = <<>>)

\* C6: a reply that decodes a SAS (type code below 5 at offset 2, or block
\* i of the N blocks of a type-6 reply at offset 4+80i) with fewer than 80
\* bytes left from that offset makes decoding fail.
C6_ShortBufferFails ==
    LET d == response.data
        t == ReplyType(d)
        short == \/ (t < 4 /\ Len(d) - 2 < 80)
                 \/ (t = 6 /\ Len(d) >= 4 /\ Len(d) - 4 < 80 * (d[3] * 256 + d[4]))
    IN  (Decoded /\ short) => (pc = "parse_raised" /\ parsed.kind = "raise")

\* C7: a gtr body for count n and at least n SAS strings is the 2-byte n
\* followed by the 80-byte encodings of exactly the first n SAS strings.
C7_GroupBodyFirstN ==
    (pc = "encoded" /\ cmd = CMD_gtr) =>
        LET n == ParseInt(cargs[1]).val
        IN  /\ Len(data) = 2 + 80 * n
            /\ SubSeq(data, 1, 2) = <<n \div 256, n % 256>>
            /\ \A i \in 1..n :
                  SubSeq(data, 2 + 80 * (i - 1) + 1, 2 + 80 * i)
                     = create_individual_token_validation_message(cargs[i + 1]).data

\* C8: for an identifier of at most 12 ASCII characters, a nonce written in
\* decimal and a 64-character ASCII token, decoding at offset 0 the block
\* that itv encoding produced from id:nonce:token gives back that text.
C8_SasRoundTrip ==
    (pc = "encoded" /\ cmd = CMD_itv) =>
        LET sas == cargs[1]
            parts == split(sas, COLON)
        IN  (/\ Len(parts) = 3
             /\ Len(parts[1]) <= 12
             /\ IsAscii(sas)
             /\ parts[2] = FormatInt(ParseInt(parts[2]).val)
             /\ Len(parts[3]) = 64)
            => (Len(data) = 80 /\ decode_sas(data, 0) = Text(sas))

\* C9: a gtr run whose count is above 16 stops at validation: nothing is
\* encoded and nothing is sent.
C9_CountAbove16Stops ==
    (/\ Len(argv) >= 5
     /\ argv[4] = CMD_gtr
     /\ ParseInt(argv[5]).ok
     /\ ParseInt(argv[5]).val > 16)
    => (pc \in {"start", "exited"} /\ data = <<>> /\ wire = <<>>)

\* C10: a reply whose type code is none of 256, 6, 8 or a code below 5
\* fails to decode; no result value is returned or printed for it.
C10_UnknownTypeFails ==
    (Decoded /\ ReplyType(response.data) \notin ({256, 6, 8} \cup (0..4))) =>
        (pc = "parse_raised" /\ parsed.kind = "raise" /\ "parsed_response" \notin Range(out))

====
